---- MODULE Spec2Model ----
(***************************************************************************)
(* Model of check_target_membership.py: the Xcode target membership        *)
(* checker.  The project descriptor (project.pbxproj) is a sequence of     *)
(* lexical tokens; the regular expressions of parse_pbxproj are evaluated  *)
(* over that sequence exactly as re.finditer / re.search evaluate them     *)
(* over the text (leftmost match, non-greedy spans that cross record       *)
(* boundaries under re.DOTALL, scanning resumed after the end of a match). *)
(* Paths and names are strings, handled character by character.            *)
(***************************************************************************)
EXTENDS Integers, Sequences, FiniteSets, TLC

VARIABLES
    exists,               \* project_path.exists()
    content,              \* the text of project.pbxproj, as tokens
    pc,                   \* position in check_target_membership
    read,                 \* parse_pbxproj has opened and read the file
    file_refs,            \* dict ref_id -> {path, source_tree}
    build_files,          \* dict build_file_id -> file_ref_id
    targets,              \* dict target_id -> {name, files}, in insertion order
    macos_widget_target,  \* <<>> (None) or <<target_info>>
    current_files,        \* set of normalized paths of the selected target
    missing,              \* expected_files - current_files
    extra,                \* current_files - expected_files
    out                   \* what has been printed, in order

vars == <<exists, content, pc, read, file_refs, build_files, targets,
          macos_widget_target, current_files, missing, extra, out>>

-----------------------------------------------------------------------------
(* Bounds of the explored inputs *)

\* longest raw path value enumerated character by character
MaxLen == 4
\* most entries in the files list of the enumerated sources phase
MaxEntries == 2

-----------------------------------------------------------------------------
(* Static configuration *)

MACOS_WIDGET_FILES ==
    { "AMFScheduleWidget/Widgets/ScheduleWidgetProvider.swift",
      "AMFScheduleWidget/Widgets/ScheduleWidgetIntent.swift",
      "AMFScheduleWidget/Widgets/WeatherClusterView.swift",
      "AMFScheduleWidget/Widgets/AMFScheduleWidget.swift",
      "AMFScheduleWidgetMAC/AMFScheduleWidgetMacBundle.swift",
      "AMFScheduleWidgetMAC/Widgets/MacWidgetDefinitions.swift",
      "AMFScheduleWidget/Widgets/Mac/MacAmbientAgendaWidget.swift",
      "AMFScheduleWidget/Widgets/Mac/MacNotificationCenterWidget.swift",
      "AMFScheduleWidget/Widgets/Intents/WidgetInteractionIntents.swift",
      "AMFScheduleWidget/Widgets/iPad/SwimlanesView.swift",
      "AMFScheduleWidget/Widgets/iPad/TimelineView.swift",
      "Schedule Summary Widget Nov 26 2025/Shared/Models/ScheduleEvent.swift",
      "Schedule Summary Widget Nov 26 2025/Shared/Models/ClientCalendar.swift",
      "Schedule Summary Widget Nov 26 2025/Shared/Models/Summaries.swift",
      "Schedule Summary Widget Nov 26 2025/Shared/Models/WeatherModel.swift",
      "Schedule Summary Widget Nov 26 2025/Shared/Models/WidgetTheme.swift",
      "Schedule Summary Widget Nov 26 2025/Shared/Services/AppGroupStore.swift",
      "Schedule Summary Widget Nov 26 2025/Shared/Services/WidgetThemeStore.swift",
      "Schedule Summary Widget Nov 26 2025/Shared/Services/CalendarService.swift",
      "Schedule Summary Widget Nov 26 2025/Shared/Services/WeatherService.swift",
      "Schedule Summary Widget Nov 26 2025/Shared/Services/GeminiSummarizer.swift",
      "Schedule Summary Widget Nov 26 2025/Shared/Services/GoogleCalendarAPI.swift" }

MAIN_APP_ONLY_FILES ==
    { "Schedule Summary Widget Nov 26 2025/AMFScheduleApp.swift",
      "Schedule Summary Widget Nov 26 2025/ContentView.swift",
      "Schedule Summary Widget Nov 26 2025/CalendarSettingsView.swift",
      "Schedule Summary Widget Nov 26 2025/PhotoBackgroundEditorView.swift",
      "Schedule Summary Widget Nov 26 2025/WidgetStudioView.swift",
      "Schedule Summary Widget Nov 26 2025/Shared/Services/BackgroundScheduler.swift" }

IOS_WIDGET_ONLY_FILES ==
    { "AMFScheduleWidget/AMFScheduleWidgetBundle.swift",
      "AMFScheduleWidget/Widgets/WidgetDefinitions.swift",
      "AMFScheduleWidget/Widgets/iPad/iPadDayboardWidget.swift",
      "AMFScheduleWidget/Widgets/iPad/LockScreenWidgets.swift" }

-----------------------------------------------------------------------------
(* Strings: the str methods the program calls *)

SetMin(S) == CHOOSE x \in S : \A y \in S : x <= y
SetMax(S) == CHOOSE x \in S : \A y \in S : y <= x

\* the characters str.strip() removes when called without an argument
Whitespace == {" ", "\t", "\n", "\r", "\f"}

\* s.strip(chars): drop the leading and the trailing run of characters of cs
str_strip(s, cs) ==
    LET keep == {i \in 1..Len(s) : SubSeq(s, i, i) \notin cs}
    IN  IF keep = {} THEN "" ELSE SubSeq(s, SetMin(keep), SetMax(keep))

\* s.replace(old, ''): remove the occurrences of old found scanning left to
\* right, each search resuming after the previous occurrence
RECURSIVE str_remove(_, _)
str_remove(s, old) ==
    LET n == Len(s)
        m == Len(old)
        hits == {i \in 1..(n - m + 1) : SubSeq(s, i, i + m - 1) = old}
    IN  IF hits = {} THEN s
        ELSE LET i == SetMin(hits)
             IN  SubSeq(s, 1, i - 1) \o str_remove(SubSeq(s, i + m, n), old)

\* sub in s
str_in(sub, s) ==
    \E i \in 1..(Len(s) - Len(sub) + 1) : SubSeq(s, i, i + Len(sub) - 1) = sub

normalize_path(path) == str_strip(str_remove(path, "\\\""), Whitespace)

\* match.group(n).strip().strip('"') of a captured field value
field_value(raw) == str_strip(str_strip(raw, Whitespace), {"\""})

expected_files == {normalize_path(f) : f \in MACOS_WIDGET_FILES}

-----------------------------------------------------------------------------
(* The descriptor text as tokens.                                          *)
(*   hdr            ID = {isa = KIND;           id = ID, v = KIND          *)
(*   path, sourceTree, name, fileRef, remoteGlobalIDString                 *)
(*                  field = VALUE;              v = the text of VALUE      *)
(*   buildPhases, files                                                    *)
(*                  field = ( ENTRY, ... );     l = the entries            *)
(*   end            };                                                     *)
(* A list entry is an identifier, followed or not by a comment.            *)

Hdr(id, isa)   == [t |-> "hdr", id |-> id, v |-> isa, l |-> <<>>]
Fld(name, v)   == [t |-> name, id |-> "", v |-> v, l |-> <<>>]
Lst(name, l)   == [t |-> name, id |-> "", v |-> "", l |-> l]
End            == [t |-> "end", id |-> "", v |-> "", l |-> <<>>]
Entry(id, c)   == [id |-> id, c |-> c]

\* least position >= from among the positions at, 0 when there is none
FirstFrom(at, from) ==
    LET idx == {i \in at : i >= from}
    IN  IF idx = {} THEN 0 ELSE SetMin(idx)

\* (\w+)\s*=\s*\{isa = KIND;
IsHdr(tok, isa) == tok.t = "hdr" /\ tok.v = isa
\* FIELD = ([^;]+);
IsField(tok, name) == tok.t = name /\ Len(tok.v) >= 1
\* FIELD = \((.*?)\);
IsList(tok, name) == tok.t = name

\* where the pieces of a pattern can match in doc
HdrAt(doc, isa) == {i \in 1..Len(doc) : IsHdr(doc[i], isa)}
FieldAt(doc, name) == {i \in 1..Len(doc) : IsField(doc[i], name)}
ListAt(doc, name) == {i \in 1..Len(doc) : IsList(doc[i], name)}

\* the identifier occurs in the text of the token
Mentions(tok, id) ==
    \/ str_in(id, tok.id)
    \/ str_in(id, tok.v)
    \/ \E n \in 1..Len(tok.l) : str_in(id, tok.l[n].id)

-----------------------------------------------------------------------------
(* parse_pbxproj *)

\* the empty dict
Empty == [x \in {} |-> 0]

\* file_refs[ref_id] = {...}
RECURSIVE file_ref_loop(_, _, _)
file_ref_loop(doc, from, acc) ==
    LET i == FirstFrom(HdrAt(doc, "PBXFileReference"), from)
        j == IF i = 0 THEN 0 ELSE FirstFrom(FieldAt(doc, "path"), i + 1)
        k == IF j = 0 THEN 0 ELSE FirstFrom(FieldAt(doc, "sourceTree"), j + 1)
    IN  IF k = 0 THEN acc
        ELSE file_ref_loop(doc, k + 1,
                 (doc[i].id :> [path |-> field_value(doc[j].v),
                                source_tree |-> str_strip(doc[k].v, Whitespace)])
                 @@ acc)

\* build_files[build_file_id] = file_ref_id
RECURSIVE build_file_loop(_, _, _)
build_file_loop(doc, from, acc) ==
    LET IsBuild(n) == /\ IsHdr(doc[n], "PBXBuildFile")
                      /\ n + 1 <= Len(doc)
                      /\ IsField(doc[n + 1], "fileRef")
        idx == {n \in from..Len(doc) : IsBuild(n)}
    IN  IF idx = {} THEN acc
        ELSE LET i == SetMin(idx)
             IN  build_file_loop(doc, i + 2, (doc[i].id :> doc[i + 1].v) @@ acc)

\* targets[target_id] = {'name': target_name, 'files': []}
dict_put(d, id, info) ==
    IF \E n \in 1..Len(d) : d[n].id = id
    THEN [n \in 1..Len(d) |-> IF d[n].id = id THEN info ELSE d[n]]
    ELSE Append(d, info)

RECURSIVE target_loop(_, _, _)
target_loop(doc, from, acc) ==
    LET i == FirstFrom(HdrAt(doc, "PBXNativeTarget"), from)
        j == IF i = 0 THEN 0 ELSE FirstFrom(FieldAt(doc, "name"), i + 1)
    IN  IF j = 0 THEN acc
        ELSE target_loop(doc, j + 1,
                 dict_put(acc, doc[i].id,
                          [id |-> doc[i].id, name |-> field_value(doc[j].v),
                           files |-> <<>>]))

\* re.search(rf'{target_id}.*?buildPhases = \((.*?)\);', content, re.DOTALL):
\* <<>> when there is no match, else <<group(1)>>
target_match(doc, target_id) ==
    LET occ == FirstFrom({i \in 1..Len(doc) : Mentions(doc[i], target_id)}, 1)
        bp  == IF occ = 0 THEN 0 ELSE FirstFrom(ListAt(doc, "buildPhases"), occ + 1)
    IN  IF bp = 0 THEN <<>> ELSE <<doc[bp].l>>

\* target_match and phase_id in target_match.group(1)
phase_belongs(doc, target_id, phase_id) ==
    LET m == target_match(doc, target_id)
    IN  /\ m # <<>>
        /\ \E n \in 1..Len(m[1]) : str_in(phase_id, m[1][n].id)

\* resolve_entry with the second lookup defaulted: a build file of an
\* undeclared reference contributes the reference identifier
resolve_entry_defaulted(files, e, bf, fr) ==
    IF e.id \in DOMAIN bf
    THEN IF bf[e.id] \in DOMAIN fr
         THEN Append(files, fr[bf[e.id]].path)
         ELSE Append(files, bf[e.id])
    ELSE files

\* one entry of files_str: appended only when both lookups succeed
resolve_entry(files, e, bf, fr) ==
    IF e.id \in DOMAIN bf
    THEN IF bf[e.id] \in DOMAIN fr
         THEN Append(files, fr[bf[e.id]].path)
         ELSE files
    ELSE files

\* resolve_files inserting at the front instead of appending
RECURSIVE resolve_files_front(_, _, _, _)
resolve_files_front(files, entries, bf, fr) ==
    IF entries = <<>> THEN files
    ELSE LET e == Head(entries)
             one == IF e.c /\ e.id \in DOMAIN bf /\ bf[e.id] \in DOMAIN fr
                    THEN <<fr[bf[e.id]].path>> ELSE <<>>
         IN  resolve_files_front(one \o files, Tail(entries), bf, fr)

\* for file_match in re.finditer(r'(\w+)\s*/\*.*?\*/', files_str)
RECURSIVE resolve_files(_, _, _, _)
resolve_files(files, entries, bf, fr) ==
    IF entries = <<>> THEN files
    ELSE LET e == Head(entries)
         IN  resolve_files(IF e.c THEN resolve_entry(files, e, bf, fr) ELSE files,
                           Tail(entries), bf, fr)

\* for target_id, target_info in targets.items()
RECURSIVE link_targets(_, _, _, _, _, _, _)
link_targets(doc, tgts, n, phase_id, entries, bf, fr) ==
    IF n > Len(tgts) THEN tgts
    ELSE link_targets(doc,
             IF phase_belongs(doc, tgts[n].id, phase_id)
             THEN [tgts EXCEPT ![n].files = resolve_files(@, entries, bf, fr)]
             ELSE tgts,
             n + 1, phase_id, entries, bf, fr)

\* for match in re.finditer(sources_pattern, content, re.DOTALL)
RECURSIVE sources_loop(_, _, _, _, _)
sources_loop(doc, from, tgts, bf, fr) ==
    LET i == FirstFrom(HdrAt(doc, "PBXSourcesBuildPhase"), from)
        j == IF i = 0 THEN 0 ELSE FirstFrom(ListAt(doc, "files"), i + 1)
    IN  IF j = 0 THEN tgts
        ELSE sources_loop(doc, j + 1,
                 link_targets(doc, tgts, 1, doc[i].id, doc[j].l, bf, fr), bf, fr)


-----------------------------------------------------------------------------
(* check_target_membership *)

Line(k, v) == [k |-> k, v |-> v]

is_macos(name) == str_in("MAC", name) \/ str_in("Mac", name)

\* find_target without the break: the last matching target wins
RECURSIVE find_target_no_break(_, _)
find_target_no_break(tgts, n) ==
    IF n > Len(tgts) THEN <<>>
    ELSE LET later == find_target_no_break(tgts, n + 1)
         IN  IF later # <<>> THEN later
             ELSE IF is_macos(tgts[n].name) THEN <<tgts[n]>>
             ELSE <<>>

\* for target_id, target_info in targets.items(): if ...: break
RECURSIVE find_target(_, _)
find_target(tgts, n) ==
    IF n > Len(tgts) THEN <<>>
    ELSE IF is_macos(tgts[n].name) THEN <<tgts[n]>>
    ELSE find_target(tgts, n + 1)

\* compute_current without normalize_path
compute_current_raw(files) == {files[n] : n \in 1..Len(files)}
compute_current(files) == {normalize_path(files[n]) : n \in 1..Len(files)}
compute_missing(expected, current) == expected \ current
compute_extra(expected, current) == current \ expected

\* annotate by exact membership instead of substring containment
annotate_exact(file) ==
    IF file \in MAIN_APP_ONLY_FILES \cup IOS_WIDGET_ONLY_FILES
    THEN "should NOT be in macOS widget target"
    ELSE "may be okay"

\* the annotation printed after an extra file
annotate(file) ==
    IF \E excluded \in MAIN_APP_ONLY_FILES \cup IOS_WIDGET_ONLY_FILES :
           str_in(excluded, file)
    THEN "should NOT be in macOS widget target"
    ELSE "may be okay"

\* ProjectNotFound without the return
ProjectNotFound_no_return ==
    /\ pc = "start"
    /\ ~exists
    /\ out' = Append(out, Line("project_not_found", <<>>))
    /\ pc' = "open"
    /\ UNCHANGED <<exists, content, read, file_refs, build_files, targets,
                   macos_widget_target, current_files, missing, extra>>

ProjectNotFound ==
    /\ pc = "start"
    /\ ~exists
    /\ out' = Append(out, Line("project_not_found", <<>>))
    /\ pc' = "done"
    /\ UNCHANGED <<exists, content, read, file_refs, build_files, targets,
                   macos_widget_target, current_files, missing, extra>>

BeginAnalysis ==
    /\ pc = "start"
    /\ exists
    /\ out' = Append(out, Line("analyzing", <<>>))
    /\ pc' = "open"
    /\ UNCHANGED <<exists, content, read, file_refs, build_files, targets,
                   macos_widget_target, current_files, missing, extra>>

ReadProject ==
    /\ pc = "open"
    /\ read' = TRUE
    /\ pc' = "file_refs"
    /\ UNCHANGED <<exists, content, file_refs, build_files, targets,
                   macos_widget_target, current_files, missing, extra, out>>

ExtractFileRefs ==
    /\ pc = "file_refs"
    /\ file_refs' = file_ref_loop(content, 1, Empty)
    /\ pc' = "build_files"
    /\ UNCHANGED <<exists, content, read, build_files, targets,
                   macos_widget_target, current_files, missing, extra, out>>

ExtractBuildFiles ==
    /\ pc = "build_files"
    /\ build_files' = build_file_loop(content, 1, Empty)
    /\ pc' = "targets"
    /\ UNCHANGED <<exists, content, read, file_refs, targets,
                   macos_widget_target, current_files, missing, extra, out>>

ExtractTargets ==
    /\ pc = "targets"
    /\ targets' = target_loop(content, 1, <<>>)
    /\ pc' = "sources"
    /\ UNCHANGED <<exists, content, read, file_refs, build_files,
                   macos_widget_target, current_files, missing, extra, out>>

LinkSourcesPhases ==
    /\ pc = "sources"
    /\ targets' = sources_loop(content, 1, targets, build_files, file_refs)
    /\ pc' = "select"
    /\ UNCHANGED <<exists, content, read, file_refs, build_files,
                   macos_widget_target, current_files, missing, extra, out>>

SelectTarget ==
    /\ pc = "select"
    /\ find_target(targets, 1) # <<>>
    /\ macos_widget_target' = find_target(targets, 1)
    /\ out' = Append(out, Line("found_target",
                  <<macos_widget_target'[1].name,
                    Len(macos_widget_target'[1].files)>>))
    /\ pc' = "diff"
    /\ UNCHANGED <<exists, content, read, file_refs, build_files, targets,
                   current_files, missing, extra>>

TargetNotFound ==
    /\ pc = "select"
    /\ find_target(targets, 1) = <<>>
    /\ out' = out \o <<Line("could_not_find_target", <<>>),
                       Line("available_targets",
                            [n \in 1..Len(targets) |-> targets[n].name])>>
    /\ pc' = "done"
    /\ UNCHANGED <<exists, content, read, file_refs, build_files, targets,
                   macos_widget_target, current_files, missing, extra>>

ComputeDiff ==
    /\ pc = "diff"
    /\ current_files' = <<compute_current(macos_widget_target[1].files)>>
    /\ missing' = <<compute_missing(expected_files, current_files'[1])>>
    /\ extra' = <<compute_extra(expected_files, current_files'[1])>>
    /\ pc' = "report"
    /\ UNCHANGED <<exists, content, read, file_refs, build_files, targets,
                   macos_widget_target, out>>

\* the lists are printed sorted; the order of the lines within a list is
\* not represented
Report ==
    /\ pc = "report"
    /\ out' = out
         \o <<Line("report", <<>>)>>
         \o (IF missing[1] # {} THEN <<Line("missing_files", missing[1])>>
             ELSE <<Line("all_required_present", <<>>)>>)
         \o (IF extra[1] # {}
             THEN <<Line("extra_files", {<<f, annotate(f)>> : f \in extra[1]})>>
             ELSE <<>>)
         \o <<Line("summary", <<Cardinality(expected_files),
                                 Cardinality(current_files[1]),
                                 Cardinality(missing[1]),
                                 Cardinality(extra[1])>>)>>
         \o (IF missing[1] # {} THEN <<Line("to_fix", <<>>)>> ELSE <<>>)
    /\ pc' = "done"
    /\ UNCHANGED <<exists, content, read, file_refs, build_files, targets,
                   macos_widget_target, current_files, missing, extra>>

Next ==
    \/ ProjectNotFound
    \/ BeginAnalysis
    \/ ReadProject
    \/ ExtractFileRefs
    \/ ExtractBuildFiles
    \/ ExtractTargets
    \/ LinkSourcesPhases
    \/ SelectTarget
    \/ TargetNotFound
    \/ ComputeDiff
    \/ Report

-----------------------------------------------------------------------------
(* The descriptors explored: records in the order Xcode writes the         *)
(* sections (PBXBuildFile, PBXContainerItemProxy, PBXFileReference,        *)
(* PBXNativeTarget, PBXSourcesBuildPhase).                                 *)

FieldOpt(name, o) == IF o = <<>> THEN <<>> ELSE <<Fld(name, o[1])>>

BuildFileRec(id, ref) ==
    <<Hdr(id, "PBXBuildFile"), Fld("fileRef", ref), End>>
ProxyRec(id, target) ==
    <<Hdr(id, "PBXContainerItemProxy"), Fld("remoteGlobalIDString", target), End>>
FileRefRec(id, path, tree) ==
    <<Hdr(id, "PBXFileReference")>> \o FieldOpt("path", path)
        \o FieldOpt("sourceTree", tree) \o <<End>>
TargetRec(id, phases, name) ==
    <<Hdr(id, "PBXNativeTarget"), Lst("buildPhases", phases)>>
        \o FieldOpt("name", name) \o <<End>>
SourcesRec(id, entries) ==
    <<Hdr(id, "PBXSourcesBuildPhase"), Lst("files", entries), End>>

Group == <<"\"<group>\"">>

\* entries of a files list, each with the trailing comment Xcode writes or
\* without it: B1 resolves, B2 names a file reference that is not declared,
\* B9 is no build file
Entries == {Entry("B1", TRUE), Entry("B2", TRUE), Entry("B9", TRUE),
            Entry("B1", FALSE)}
EntryLists == UNION {[1..n -> Entries] : n \in 0..MaxEntries}

PhaseLists == {<<>>, <<Entry("P1", TRUE)>>, <<Entry("P2", TRUE)>>,
               <<Entry("P1", TRUE), Entry("P2", TRUE)>>,
               <<Entry("P2", TRUE), Entry("P1", TRUE)>>}

\* linking: which phase goes to which target, which entries resolve
DocsLink ==
    { BuildFileRec("B1", "F1") \o BuildFileRec("B2", "F9")
        \o BuildFileRec("B3", "F2")
        \o (IF px = <<>> THEN <<>> ELSE ProxyRec("X1", px[1]))
        \o FileRefRec("F1", <<"a.swift">>, Group)
        \o FileRefRec("F2", <<"\"b c.swift\"">>, Group)
        \o TargetRec("T1", bp1, <<"App">>)
        \o TargetRec("T2", bp2, <<"\"Widget Mac\"">>)
        \o SourcesRec("P1", e1)
        \o SourcesRec("P2", <<Entry("B2", TRUE), Entry("B3", TRUE)>>) :
        px \in {<<>>, <<"T1">>, <<"T2">>},
        bp1 \in PhaseLists,
        bp2 \in {<<>>, <<Entry("P1", TRUE)>>, <<Entry("P2", TRUE)>>},
        e1 \in EntryLists }

\* path values: every string of the characters of Alphabet up to MaxLen,
\* and paths built on the configured ones
Alphabet == {"\\", "\"", " ", "x"}
RECURSIVE Strings(_)
Strings(n) ==
    IF n = 0 THEN {""}
    ELSE {s \o c : s \in Strings(n - 1), c \in Alphabet}
SamplePaths ==
    { "AMFScheduleWidget/Widgets/iPad/TimelineView.swift",
      "\"AMFScheduleWidget/Widgets/iPad/SwimlanesView.swift\"",
      "\\\"AMFScheduleWidget/Widgets/WeatherClusterView.swift\\\"",
      "AMFScheduleWidget/Widgets/weatherclusterview.swift",
      "Widgets/WeatherClusterView.swift",
      "\"Schedule Summary Widget Nov 26 2025/ContentView.swift\"",
      "../Schedule Summary Widget Nov 26 2025/WidgetStudioView.swift",
      "AMFScheduleWidget/Widgets/iPad/LockScreenWidgets.swift",
      "AMFScheduleWidget/Widgets/iPad/LockScreenWidgets.swift.orig",
      "Widgets/iPad/LockScreenWidgets.swift",
      "AMFScheduleWidget/\\\"Widgets/WidgetDefinitions.swift",
      "\\\\\"\"x.swift",
      " \"Sources/\\\\\"\"Main.swift\" " }
RawPaths == UNION {Strings(n) : n \in 1..MaxLen} \cup SamplePaths

DocsPaths ==
    { BuildFileRec("B1", "F1") \o BuildFileRec("B2", "F2")
        \o FileRefRec("F1", <<raw>>, Group)
        \o FileRefRec("F2", <<other>>, Group)
        \o TargetRec("T1", <<Entry("P1", TRUE)>>, <<"AMFScheduleWidgetMACExtension">>)
        \o SourcesRec("P1", <<Entry("B1", TRUE), Entry("B2", TRUE)>>) :
        raw \in RawPaths,
        other \in {"AMFScheduleWidget/Widgets/ScheduleWidgetProvider.swift",
                   "Schedule Summary Widget Nov 26 2025/AMFScheduleApp.swift"} }

\* target names as written in the descriptor; <<>>: no name field
RawNames == {<<>>, <<"App">>, <<"\"Widget MAC\"">>, <<"\"\"Mac\"\"">>,
             <<" \"iOS Widget\" ">>, <<"mac">>, <<"\"M\"ac\"">>}

DocsNames ==
    { BuildFileRec("B1", "F1")
        \o FileRefRec("F1", <<"a.swift">>, Group)
        \o TargetRec("T1", <<Entry("P1", TRUE)>>, n1)
        \o TargetRec("T2", <<Entry("P1", TRUE)>>, n2)
        \o TargetRec("T3", <<>>, n3)
        \o SourcesRec("P1", <<Entry("B1", TRUE)>>) :
        n1 \in RawNames, n2 \in RawNames, n3 \in {<<"Mac3">>, <<"App3">>} }

\* file references with and without their path and sourceTree fields
DocsRefs ==
    { BuildFileRec("B1", "F1") \o BuildFileRec("B2", "F2")
        \o FileRefRec("F1", p1, s1)
        \o FileRefRec("F2", p2, s2)
        \o TargetRec("T1", <<Entry("P1", TRUE)>>, <<"WidgetMac">>)
        \o SourcesRec("P1", <<Entry("B1", TRUE), Entry("B2", TRUE)>>) :
        p1 \in {<<>>, <<"a.swift">>}, s1 \in {<<>>, Group},
        p2 \in {<<>>, <<"b.swift">>}, s2 \in {<<>>, <<"SOURCE_ROOT">>} }

Docs == DocsLink \cup DocsPaths \cup DocsNames \cup DocsRefs

Init ==
    /\ exists \in BOOLEAN
    /\ content \in (IF exists THEN Docs ELSE {<<>>})
    /\ pc = "start"
    /\ read = FALSE
    /\ file_refs = Empty
    /\ build_files = Empty
    /\ targets = <<>>
    /\ macos_widget_target = <<>>
    /\ current_files = <<>>
    /\ missing = <<>>
    /\ extra = <<>>
    /\ out = <<>>

Spec == Init /\ [][Next]_vars

-----------------------------------------------------------------------------
(* Reading the descriptor record by record: what each record itself says.  *)
(* The properties below are stated against this reading.                   *)

\* the tokens of the body of the record whose header is at i
Body(i) ==
    LET e == FirstFrom({j \in 1..Len(content) : content[j].t = "end"}, i + 1)
    IN  (i + 1)..((IF e = 0 THEN Len(content) + 1 ELSE e) - 1)
OwnFields(i, name) == {j \in Body(i) : content[j].t = name}
OwnList(i, name) ==
    IF OwnFields(i, name) = {} THEN <<>>
    ELSE content[SetMin(OwnFields(i, name))].l

HeadersOf(isa) == {i \in 1..Len(content) : IsHdr(content[i], isa)}
Range(f) == {f[k] : k \in 1..Len(f)}

\* parse_pbxproj has returned
Parsed == pc \in {"select", "diff", "report", "done"} /\ read

\* both lookups of a files entry succeed
Resolvable(e) ==
    /\ e.c
    /\ e.id \in DOMAIN build_files
    /\ build_files[e.id] \in DOMAIN file_refs
ResolvedPath(e) == file_refs[build_files[e.id]].path

\* the <<phase record, entry number>> pairs that resolve, over the sources
\* phases attributed to the target
Contributions(target_id) ==
    UNION { { <<i, k>> : k \in {k \in 1..Len(OwnList(i, "files")) :
                                   Resolvable(OwnList(i, "files")[k])} } :
            i \in {i \in HeadersOf("PBXSourcesBuildPhase") :
                       phase_belongs(content, target_id, content[i].id)} }
PathOf(p) == ResolvedPath(OwnList(p[1], "files")[p[2]])
\* document order of the pairs
Before(p, q) == p[1] < q[1] \/ (p[1] = q[1] /\ p[2] < q[2])
Rank(p, C) == 1 + Cardinality({q \in C : Before(q, p)})

\* C1: normalize_path is idempotent on every path it is applied to:
\* normalizing the normalized path of a file of the selected target
\* changes nothing.
C1_NormalizeIdempotent ==
    current_files # <<>> =>
        \A x \in Range(macos_widget_target[1].files) :
            normalize_path(normalize_path(x)) = normalize_path(x)

\* C2: after parse_pbxproj every path in a target's files is reached
\* through a sources phase listed in that target's own buildPhases list,
\* a build file listed in that phase, and the file reference of that
\* build file.
C2_FilesThroughOwnPhases ==
    Parsed =>
        \A n \in 1..Len(targets) : \A path \in Range(targets[n].files) :
            \E t \in HeadersOf("PBXNativeTarget") :
            \E i \in HeadersOf("PBXSourcesBuildPhase") :
                /\ content[t].id = targets[n].id
                /\ content[i].id \in {ph.id : ph \in Range(OwnList(t, "buildPhases"))}
                /\ \E b \in Range(OwnList(i, "files")) :
                       /\ b.id \in DOMAIN build_files
                       /\ build_files[b.id] \in DOMAIN file_refs
                       /\ file_refs[build_files[b.id]].path = path

\* C3: an entry whose identifier is not in build_files, or whose build file
\* names a file reference not in file_refs, adds nothing, and every other
\* entry of the same and of the later phases is still resolved: each path
\* occurs in a target's files exactly as many times as resolvable entries
\* of the phases attributed to the target resolve to it.
C3_UnresolvableEntriesDropped ==
    Parsed =>
        \A n \in 1..Len(targets) :
            LET files == targets[n].files
                C == Contributions(targets[n].id)
            IN  /\ Len(files) = Cardinality(C)
                /\ \A path \in Range(files) \cup {PathOf(p) : p \in C} :
                       Cardinality({k \in 1..Len(files) : files[k] = path})
                           = Cardinality({p \in C : PathOf(p) = path})

\* a target got the files of two phases, one holding an entry that is no
\* build file and one holding a build file of an undeclared reference, each
\* followed by an entry that resolved
C3_Witness ==
    /\ Parsed
    /\ \E n \in 1..Len(targets) :
       \E i1, i2 \in HeadersOf("PBXSourcesBuildPhase") :
          LET e1 == OwnList(i1, "files")
              e2 == OwnList(i2, "files")
          IN  /\ i1 < i2
              /\ phase_belongs(content, targets[n].id, content[i1].id)
              /\ phase_belongs(content, targets[n].id, content[i2].id)
              /\ \E k \in 1..Len(e1) : \E m \in (k + 1)..Len(e1) :
                     /\ e1[k].c /\ e1[k].id \notin DOMAIN build_files
                     /\ Resolvable(e1[m])
              /\ \E k \in 1..Len(e2) : \E m \in (k + 1)..Len(e2) :
                     /\ e2[k].c /\ e2[k].id \in DOMAIN build_files
                     /\ build_files[e2[k].id] \notin DOMAIN file_refs
                     /\ Resolvable(e2[m])
              /\ Len(targets[n].files) = 2

\* C10: a target's files is the concatenation, over the sources phases
\* attributed to it in the order their records occur in the descriptor, of
\* the resolved paths of the entries in listed order: one element per
\* resolvable entry, at the position of the entry among them.
C10_FilesInDocumentOrder ==
    Parsed =>
        \A n \in 1..Len(targets) :
            LET files == targets[n].files
                C == Contributions(targets[n].id)
            IN  /\ Len(files) = Cardinality(C)
                /\ \A p \in C : files[Rank(p, C)] = PathOf(p)

\* a target lists two phases in the reverse of their order in the
\* descriptor and got a repeated path from the first record, then a
\* different path from the second
C10_Witness ==
    /\ Parsed
    /\ \E n \in 1..Len(targets) : \E t \in HeadersOf("PBXNativeTarget") :
       \E i1, i2 \in HeadersOf("PBXSourcesBuildPhase") :
          LET files == targets[n].files
              bp == OwnList(t, "buildPhases")
          IN  /\ content[t].id = targets[n].id
              /\ i1 < i2
              /\ Len(bp) = 2
              /\ bp[1].id = content[i2].id
              /\ bp[2].id = content[i1].id
              /\ Len(files) = 3
              /\ files[1] = files[2]
              /\ files[3] # files[2]

\* the expected paths as the differ compares them
NormalizedExpected == {normalize_path(x) : x \in MACOS_WIDGET_FILES}

\* C4: missing is exactly the normalized expected paths that are not among
\* the normalized current paths, extra exactly the normalized current paths
\* that are not among the normalized expected ones, compared as whole
\* strings; the two are disjoint and a path in both sets is in neither.
C4_PlainSetDifferences ==
    missing # <<>> =>
        LET current == {normalize_path(x) : x \in Range(macos_widget_target[1].files)}
            expected == NormalizedExpected
        IN  /\ extra # <<>>
            /\ \A path \in current \cup expected \cup missing[1] \cup extra[1] :
                   /\ path \in missing[1] <=> (path \in expected /\ path \notin current)
                   /\ path \in extra[1] <=> (path \in current /\ path \notin expected)
            /\ missing[1] \cap extra[1] = {}
            /\ \A path \in current \cap expected :
                   path \notin missing[1] \cup extra[1]

\* one path is both expected and current, and an extra path is a proper
\* part of a missing one
C4_Witness ==
    /\ missing # <<>>
    /\ extra # <<>>
    /\ \E x \in Range(macos_widget_target[1].files) :
           normalize_path(x) \in expected_files
    /\ \E m \in missing[1] : \E x \in extra[1] : x # m /\ Len(x) > 0 /\ str_in(x, m)

\* x occurs in file after its first a characters
OccursIn(x, file) ==
    \E a \in 0..(Len(file) - Len(x)) : SubSeq(file, a + 1, a + Len(x)) = x

\* C5: the report annotates every extra entry, as a conflict exactly when a
\* path of MAIN_APP_ONLY_FILES or IOS_WIDGET_ONLY_FILES occurs in it as a
\* substring and as possibly fine otherwise; an extra entry that is a member
\* of MAIN_APP_ONLY_FILES is a conflict.
C5_ExtraAnnotation ==
    (pc = "done" /\ extra # <<>>) =>
        LET lines == {n \in 1..Len(out) : out[n].k = "extra_files"}
            Conflict(f) == \E x \in MAIN_APP_ONLY_FILES \cup IOS_WIDGET_ONLY_FILES :
                               OccursIn(x, f)
        IN  /\ extra[1] = {} => lines = {}
            /\ extra[1] # {} =>
                   /\ Cardinality(lines) = 1
                   /\ \A n \in lines :
                          /\ out[n].v =
                               {<<f, IF Conflict(f)
                                     THEN "should NOT be in macOS widget target"
                                     ELSE "may be okay">> : f \in extra[1]}
                          /\ \A f \in extra[1] \cap MAIN_APP_ONLY_FILES :
                                 <<f, "should NOT be in macOS widget target">> \in out[n].v

\* the report flags an extra entry that is a member of MAIN_APP_ONLY_FILES
C5_Witness ==
    /\ pc = "done"
    /\ extra # <<>>
    /\ \E n \in 1..Len(out) :
           /\ out[n].k = "extra_files"
           /\ \E f \in extra[1] \cap MAIN_APP_ONLY_FILES :
                  <<f, "should NOT be in macOS widget target">> \in out[n].v

HasMac(name) ==
    \E i \in 1..(Len(name) - 2) : SubSeq(name, i, i + 2) \in {"MAC", "Mac"}

\* C6: the target diffed is the first extracted target whose name contains
\* "MAC" or "Mac"; when no extracted target has such a name the names of
\* all extracted targets are reported and nothing is computed.
C6_FirstMacTargetOrReport ==
    (Parsed /\ pc # "select") =>
        LET idx == {n \in 1..Len(targets) : HasMac(targets[n].name)}
        IN  IF idx = {}
            THEN /\ pc = "done"
                 /\ macos_widget_target = <<>>
                 /\ current_files = <<>> /\ missing = <<>> /\ extra = <<>>
                 /\ Len(out) = 3
                 /\ out[1].k = "analyzing"
                 /\ out[2].k = "could_not_find_target"
                 /\ out[3].k = "available_targets"
                 /\ out[3].v = [n \in 1..Len(targets) |-> targets[n].name]
            ELSE /\ macos_widget_target = <<targets[SetMin(idx)]>>
                 /\ pc \in {"report", "done"} => current_files # <<>>
                 /\ current_files # <<>> =>
                        current_files[1] =
                            {normalize_path(x) : x \in Range(targets[SetMin(idx)].files)}

\* two targets qualify, the first extracted target does not, and the report
\* is that of the first qualifying one
C6_Witness ==
    /\ pc = "done"
    /\ macos_widget_target # <<>>
    /\ Len(targets) >= 3
    /\ ~HasMac(targets[1].name)
    /\ HasMac(targets[2].name)
    /\ HasMac(targets[3].name)
    /\ macos_widget_target[1].id = targets[2].id

\* at most one quotation mark removed at each end
UnquoteOnce(s) ==
    LET n == Len(s)
        a == IF n >= 1 /\ SubSeq(s, 1, 1) = "\"" THEN 2 ELSE 1
        b == IF n >= 1 /\ SubSeq(s, n, n) = "\"" THEN n - 1 ELSE n
    IN  SubSeq(s, a, b)

\* C7: the name of an extracted target is the value of its name field with
\* one leading quotation mark removed if there is one, one trailing
\* quotation mark removed if there is one, and nothing else changed.
C7_NameUnquotedOnce ==
    (read /\ pc \notin {"open", "file_refs", "build_files", "targets"}) =>
        \A n \in 1..Len(targets) :
            \E t \in HeadersOf("PBXNativeTarget") :
                LET j == FirstFrom(FieldAt(content, "name"), t + 1)
                IN  /\ content[t].id = targets[n].id
                    /\ j # 0
                    /\ targets[n].name =
                           UnquoteOnce(str_strip(content[j].v, Whitespace))

\* C8: a file reference record whose own body lacks a path or a sourceTree
\* field gets no entry in file_refs, and every entry of file_refs holds the
\* path and sourceTree of the record whose identifier keys it.
C8_IncompleteFileRefSkipped ==
    (read /\ pc \notin {"open", "file_refs"}) =>
        /\ \A i \in HeadersOf("PBXFileReference") :
               (OwnFields(i, "path") = {} \/ OwnFields(i, "sourceTree") = {})
                   => content[i].id \notin DOMAIN file_refs
        /\ \A id \in DOMAIN file_refs :
               \E i \in HeadersOf("PBXFileReference") :
               \E j \in OwnFields(i, "path") : \E k \in OwnFields(i, "sourceTree") :
                   /\ content[i].id = id
                   /\ file_refs[id].path = field_value(content[j].v)
                   /\ file_refs[id].source_tree = str_strip(content[k].v, Whitespace)

\* C9: when the descriptor does not exist the routine prints the not-found
\* message and returns: nothing is read or parsed, no target is selected,
\* nothing else is printed.
C9_MissingFileEarlyReturn ==
    ~exists =>
        /\ pc \in {"start", "done"}
        /\ pc = "start" => out = <<>>
        /\ pc = "done" => Len(out) = 1 /\ out[1].k = "project_not_found"
        /\ ~read
        /\ DOMAIN file_refs = {} /\ DOMAIN build_files = {} /\ targets = <<>>
        /\ macos_widget_target = <<>>
        /\ current_files = <<>> /\ missing = <<>> /\ extra = <<>>

\* the routine has returned after the not-found message
C9_Witness ==
    /\ ~exists
    /\ pc = "done"
    /\ Len(out) = 1
    /\ out[1].k = "project_not_found"

====
